---------------------------- MODULE Spec2Model ----------------------------
(***************************************************************************)
(* The MSE player of sratim (src/unnamed/part_003, the current player       *)
(* page script; src/frontend/player.js lines 1-367 is the same code without *)
(* the X-Actual-Start header).                                              *)
(*                                                                          *)
(* JavaScript runs one task at a time, so every action below is one         *)
(* synchronous run of the code: from the event, timer or promise that       *)
(* resumes it up to the next await or return, every call it makes included  *)
(* (appendNext, cleanupBuffer, loadVideo, startStream).  The operators take *)
(* the whole program state as a record w and return the state the code      *)
(* leaves; the actions assign it to the variables.                          *)
(*                                                                          *)
(* The browser objects the script drives (MediaSource, SourceBuffer, fetch, *)
(* AbortController, the video element) behave as the Media Source           *)
(* Extensions and Fetch standards say; each is modelled at the line of the  *)
(* script that calls it.                                                    *)
(***************************************************************************)
EXTENDS Integers, Sequences, FiniteSets, TLC

(***************************************************************************)
(* Bounds of the model.                                                     *)
(***************************************************************************)
MaxLoads  == 3      \* calls of loadVideo (MediaSource objects created)
MaxStarts == 4      \* calls of startStream
MaxEvents == 2      \* things the user and the video element do (seek, switch, play, fault)
MaxChunks == 3      \* chunks the endpoint sends on one response
SinkCapacity == 2   \* chunks the SourceBuffer holds before QuotaExceededError
MaxSingleRetries == 1   \* busy retries followed one by one
MaxLibraries == 2   \* libraries configured
MaxDepth == 2       \* folder levels below a library root
MaxRequests == 3    \* fetches the library browser sends

(***************************************************************************)
(* Constants of the script.                                                 *)
(***************************************************************************)
CoolDownMs      == 5000   \* now - lastDecodeErrorTime > 5000
SkipSeconds     == 2      \* videoElement.currentTime + 2.0
RetentionSeconds == 30    \* videoElement.currentTime - 30
CeilingSeconds  == 30     \* end - videoElement.currentTime > 30
maxRetries      == 20     \* const maxRetries = 20
MaxSafeties     == 20     \* safeties < 20
MaxS2           == 50     \* s2 < 50
MaxEosSafeties  == 100    \* eosSafeties < 100

(***************************************************************************)
(* The environment: the media item, the endpoint's keyframe grid, the       *)
(* length of a chunk, how far playback and the clock move in one step.      *)
(***************************************************************************)
ChunkSeconds == 40
PlaySeconds  == 40
KeyInterval  == 4
TickMs       == 6000
StartMs      == 6000

SeekTimes  == {0, 50}
AudioIndexes == {0, 1}
SubtitleIndexes == {-1, 0}

\* The descriptors /api/metadata may return for the media item.
Descriptors ==
  { [duration |-> 100, video_codec |-> "hevc", nAudio |-> 2, nSubs |-> 1] }

\* What /api/metadata can answer for other media: other codecs, no audio,
\* no subtitles, no duration.
FormatDescriptors ==
  [ duration : {0, 100}, video_codec : {"hevc", "h264", "vp9", "av1"},
    nAudio : 0..2, nSubs : 0..1 ]

Loads   == 1..MaxLoads
Streams == 1..MaxStarts
Libraries == 1..MaxLibraries

VARIABLES
  currentAudioTrackIndex,   \* let currentAudioTrackIndex
  lastDecodeErrorTime,      \* let lastDecodeErrorTime
  currentMediaSource,       \* let currentMediaSource (the loadVideo call it belongs to)
  currentAbortController,   \* let currentAbortController (the startStream call; 0 = null)
  videoElement,             \* the <video>: currentTime, error (and when it was raised), handlers, text track
  mediaSource,              \* per loadVideo call: its closure (mediaSource, sourceBuffer, queue, abortController)
  stream,                   \* per startStream call: its closure and where activeStart is suspended
  descriptor,               \* what /api/metadata answers for moviePath
  now,                      \* Date.now()
  nLoads, nStarts,          \* how many loadVideo and startStream calls there have been
  nEvents,                  \* how many things the user and the environment have done
  errors,                   \* what logError / console.error has surfaced
  library                   \* the library browser (app.js): its globals, its grid, its requests

vars == << currentAudioTrackIndex, lastDecodeErrorTime, currentMediaSource,
           currentAbortController, videoElement, mediaSource, stream,
           descriptor, now, nLoads, nStarts, nEvents, errors, library >>

\* The program state as one record.
World ==
  [ currentAudioTrackIndex |-> currentAudioTrackIndex,
    lastDecodeErrorTime    |-> lastDecodeErrorTime,
    currentMediaSource     |-> currentMediaSource,
    currentAbortController |-> currentAbortController,
    videoElement           |-> videoElement,
    mediaSource            |-> mediaSource,
    stream                 |-> stream,
    descriptor             |-> descriptor,
    now                    |-> now,
    nLoads                 |-> nLoads,
    nStarts                |-> nStarts,
    errors                 |-> errors,
    overflow               |-> FALSE ]

\* The variables take the state w the code has left.  A run that needs more
\* loadVideo or startStream calls than the bounds allow is not taken.
Assign(w) ==
  /\ ~w.overflow
  /\ currentAudioTrackIndex' = w.currentAudioTrackIndex
  /\ lastDecodeErrorTime'    = w.lastDecodeErrorTime
  /\ currentMediaSource'     = w.currentMediaSource
  /\ currentAbortController' = w.currentAbortController
  /\ videoElement'           = w.videoElement
  /\ mediaSource'            = w.mediaSource
  /\ stream'                 = w.stream
  /\ descriptor'             = w.descriptor
  /\ now'                    = w.now
  /\ nLoads'                 = w.nLoads
  /\ nStarts'                = w.nStarts
  /\ errors'                 = w.errors
  /\ library'                = library

Max(S) == CHOOSE x \in S : \A y \in S : y <= x

\* A MediaSource that loadVideo has not created yet.
NoMediaSource ==
  [ init            |-> "none",     \* where the sourceopen handler of this loadVideo is
    startPosition   |-> 0,
    readyState      |-> "closed",   \* mediaSource.readyState
    hasBuffer       |-> FALSE,      \* addSourceBuffer has run
    mime            |-> [video |-> "", audio |-> ""],  \* the codecs of outputMime it ran with
    updating        |-> "no",       \* sourceBuffer.updating and the operation running
    op              |-> << >>,      \* the chunk being appended / the end of the range being removed
    buffered        |-> {},         \* sourceBuffer.buffered, as the chunks held and where
    timestampOffset |-> 0,          \* sourceBuffer.timestampOffset
    queue           |-> << >>,      \* const queue = []
    abortController |-> 0,          \* let abortController = null
    abortEvent      |-> FALSE,      \* an updateend queued by sourceBuffer.abort()
    appended        |-> << >> ]     \* the streams whose chunks appendBuffer has taken, in order

\* A startStream call that has not been made yet.
NoStream ==
  [ pc          |-> "none",
    inst        |-> 0,       \* the loadVideo call whose closure it runs in
    timeToStart |-> 0,
    retryCount  |-> 0,
    safeties    |-> 0,
    s2          |-> 0,
    eosSafeties |-> 0,
    aborted     |-> FALSE,   \* signal.aborted of the controller activeStart made last
    by          |-> "none",  \* who called startStream: the sourceopen handler, onseeking, onchange
    requested   |-> FALSE,   \* fetch(streamUrl) was issued
    start       |-> -1,      \* the start of streamUrl
    audio_track |-> 0,       \* the audio_track of streamUrl
    header      |-> -1,      \* X-Actual-Start of the response (-1: none)
    nread       |-> 0,       \* chunks reader.read() has returned
    nappended   |-> 0,       \* chunks of it appendBuffer has taken
    exhausted   |-> FALSE ]  \* reader.read() has returned done

\* An activeStart that has returned with no timer, promise or reader left: its
\* closure is gone.
Returned(s) == [NoStream EXCEPT !.pc = "done", !.inst = s.inst, !.aborted = s.aborted]


(***************************************************************************)
(* The browser objects, at the calls the script makes.                      *)
(***************************************************************************)

\* abortController.abort(): the signal is set; a fetch or a read pending on it
\* rejects with AbortError, which the catch of activeStart drops silently, so
\* that activeStart is over.
AbortSignal(s) ==
  IF s.pc \in {"fetch", "read", "done"}
  THEN [Returned(s) EXCEPT !.aborted = TRUE]
  ELSE IF s.pc \in {"flow", "eos"}
       \* asleep in the read loop: what is left of its run reads the signal, the
       \* closure and eosSafeties only
       THEN [NoStream EXCEPT !.pc = s.pc, !.inst = s.inst, !.aborted = TRUE,
                             !.eosSafeties = s.eosSafeties]
       ELSE [s EXCEPT !.aborted = TRUE]

\* videoElement.src = URL.createObjectURL(new MediaSource()): the MediaSource
\* attached before is detached (readyState closed, its SourceBuffer removed and
\* no longer updating).
Detach(m) ==
  [m EXCEPT !.readyState = "closed", !.updating = "no", !.op = << >>,
            !.buffered = {}, !.abortEvent = FALSE, !.timestampOffset = 0,
            !.appended = << >>]

\* try { sourceBuffer.abort(); } catch (e) { }: abort() throws unless readyState
\* is open, and throws while a range removal runs; it ends a running append and
\* queues an updateend.
SourceBufferAbort(m) ==
  IF m.readyState = "open" /\ m.updating = "append"
  THEN [m EXCEPT !.updating = "no", !.op = << >>, !.abortEvent = TRUE]
  ELSE m

\* The end of the last buffered range: sourceBuffer.buffered.end(length - 1).
BufferedEnd(m) == Max({c.pos + ChunkSeconds : c \in m.buffered})

\* The range removal remove(0, end) does once it completes: a chunk goes when
\* it lies in the range whole (end = -1 stands for Infinity).
RemoveRange(buffered, end) ==
  IF end = -1 THEN {}
  ELSE {c \in buffered : c.pos + ChunkSeconds > end}

\* appendBuffer throws QuotaExceededError when the SourceBuffer is full.
QuotaExceeded(m) == Cardinality(m.buffered) >= SinkCapacity

\* mediaSource.duration is NaN unless the sourceopen handler has set it, and
\* remove() throws TypeError while it is NaN.
DurationKnown(w) == w.descriptor.duration > 0

\* The streams of the log, runs of one stream counted once.
Logged(log, s) == IF log # << >> /\ log[Len(log)] = s THEN log ELSE Append(log, s)

\* loadVideo as it would run if a reload started the cool-down afresh.
LoadVideoResetsCoolDown(w, startPosition) ==
  IF w.nLoads >= MaxLoads THEN [w EXCEPT !.overflow = TRUE]
  ELSE
  LET n == w.nLoads + 1
      st == IF w.currentAbortController # 0
            THEN [w.stream EXCEPT ![w.currentAbortController] = AbortSignal(@)]
            ELSE w.stream
      ms == [i \in Loads |->
               IF i = n THEN [NoMediaSource EXCEPT !.init = "waitOpen",
                                                   !.startPosition = startPosition]
               ELSE Detach(w.mediaSource[i])]
  IN [w EXCEPT !.stream = st,
               !.currentAbortController = 0,
               !.currentMediaSource = n,
               !.mediaSource = ms,
               !.nLoads = n,
               !.lastDecodeErrorTime = 0,
               !.videoElement.error = "none",
               !.videoElement.errorTime = 0,
               !.videoElement.currentTime = 0]

(***************************************************************************)
(* loadVideo (the synchronous part, lines 62-76).                           *)
(***************************************************************************)
LoadVideo(w, startPosition) ==
  IF w.nLoads >= MaxLoads THEN [w EXCEPT !.overflow = TRUE]
  ELSE
  LET n == w.nLoads + 1
      \* 1. Cleanup previous state
      st == IF w.currentAbortController # 0
            THEN [w.stream EXCEPT ![w.currentAbortController] = AbortSignal(@)]
            ELSE w.stream
      \* 2. Create new MediaSource; videoElement.src = ...
      ms == [i \in Loads |->
               IF i = n THEN [NoMediaSource EXCEPT !.init = "waitOpen",
                                                   !.startPosition = startPosition]
               ELSE Detach(w.mediaSource[i])]
  IN [w EXCEPT !.stream = st,
               !.currentAbortController = 0,
               !.currentMediaSource = n,
               !.mediaSource = ms,
               !.nLoads = n,
               \* the media element load algorithm: error null, position 0
               !.videoElement.error = "none",
               !.videoElement.errorTime = 0,
               !.videoElement.currentTime = 0]

\* cleanupBuffer as it would run with removeEnd = videoElement.currentTime.
CleanupBufferToPosition(w, i) ==
  LET m == w.mediaSource[i]
      removeEnd == w.videoElement.currentTime
  IN IF m.readyState # "open" \/ m.updating # "no" THEN w
     ELSE IF removeEnd > 0 /\ DurationKnown(w)
          THEN [w EXCEPT !.mediaSource[i].updating = "remove",
                         !.mediaSource[i].op = << removeEnd >>]
          ELSE w

(***************************************************************************)
(* cleanupBuffer (lines 203-213).                                           *)
(***************************************************************************)
CleanupBuffer(w, i) ==
  LET m == w.mediaSource[i]
      removeEnd == w.videoElement.currentTime - RetentionSeconds
  IN IF m.readyState # "open" \/ m.updating # "no" THEN w
     ELSE IF removeEnd > 0 /\ DurationKnown(w)
          THEN [w EXCEPT !.mediaSource[i].updating = "remove",
                         !.mediaSource[i].op = << removeEnd >>]
          ELSE w

(***************************************************************************)
(* appendNext (lines 215-258).                                              *)
(***************************************************************************)
\* Recovery Logic (lines 225-238): what a decode error makes appendNext do.
DecodeRecovery(w) ==
  IF w.now - w.lastDecodeErrorTime > CoolDownMs
  THEN LoadVideo([w EXCEPT !.lastDecodeErrorTime = w.now],
                 w.videoElement.currentTime + SkipSeconds)
  ELSE [w EXCEPT !.errors = @ \cup {"Too many decode errors"}]

\* appendNext as it would run without queue.shift() after appendBuffer.
AppendHeadKeepsChunk(w, i) ==
  LET m == w.mediaSource[i]
  IN IF m.queue # << >> /\ m.updating = "no"
     THEN IF QuotaExceeded(m)
          THEN CleanupBuffer(w, i)
          ELSE [w EXCEPT !.mediaSource[i].updating = "append",
                         !.mediaSource[i].op = << Head(m.queue) >>,
                         !.mediaSource[i].appended = Logged(@, Head(m.queue).s),
                         !.stream[Head(m.queue).s].nappended = @ + 1]
     ELSE w

\* Lines 245-257: the head of the queue goes to the sink.
AppendHead(w, i) ==
  LET m == w.mediaSource[i]
  IN IF m.queue # << >> /\ m.updating = "no"
     THEN IF QuotaExceeded(m)
          THEN CleanupBuffer(w, i)
          ELSE [w EXCEPT !.mediaSource[i].updating = "append",
                         !.mediaSource[i].op = << Head(m.queue) >>,
                         !.mediaSource[i].appended = Logged(@, Head(m.queue).s),
                         !.stream[Head(m.queue).s].nappended = @ + 1,
                         !.mediaSource[i].queue = Tail(@)]
     ELSE w

\* appendNext as it would run if every playback error were recovered from.
AppendNextRecoversAny(w, i) ==
  IF w.mediaSource[i].readyState # "open" THEN w
  ELSE IF w.videoElement.error # "none" THEN DecodeRecovery(w)
  ELSE AppendHead(w, i)

AppendNext(w, i) ==
  IF w.mediaSource[i].readyState # "open" THEN w
  ELSE IF w.videoElement.error = "decode" THEN DecodeRecovery(w)
  ELSE IF w.videoElement.error # "none"
       THEN [w EXCEPT !.errors = @ \cup {"Fatal playback error"}]
  ELSE AppendHead(w, i)

(***************************************************************************)
(* activeStart (lines 269-399), cut at its awaits.                          *)
(***************************************************************************)
Inst(w, t) == w.stream[t].inst
Closure(w, t) == w.mediaSource[w.stream[t].inst]

Finish(w, t) == [w EXCEPT !.stream[t] = Returned(@)]

\* The endpoint starts the stream at the keyframe at or before the requested time.
ActualStart(timeToStart) == timeToStart - (timeToStart % KeyInterval)

\* The top of while (true) (lines 351-364): out when cancelled or when the
\* MediaSource is not open; asleep for a second when the buffered margin is
\* over the ceiling; else reader.read() is issued.
OverCeiling(w, t) ==
  LET m == Closure(w, t)
  IN /\ m.buffered # {}
     /\ BufferedEnd(m) - w.videoElement.currentTime > CeilingSeconds

\* The top of the loop as it would run without the flow-control block.
LoopTopIgnoresCeiling(w, t) ==
  IF w.stream[t].aborted THEN Finish(w, t)
  ELSE IF Closure(w, t).readyState # "open" THEN Finish(w, t)
  ELSE [w EXCEPT !.stream[t].pc = "read"]

LoopTop(w, t) ==
  IF w.stream[t].aborted THEN Finish(w, t)
  ELSE IF Closure(w, t).readyState # "open" THEN Finish(w, t)
  ELSE IF OverCeiling(w, t) THEN [w EXCEPT !.stream[t].pc = "flow"]
  ELSE [w EXCEPT !.stream[t].pc = "read"]

\* Lines 366-379 once the drain wait is over: endOfStream() when the sink is
\* idle and the queue empty (it throws unless readyState is open, and the catch
\* of activeStart logs that), a warning otherwise; then the loop goes round.
EndOfStream(w, t) ==
  LET i == Inst(w, t)
      m == Closure(w, t)
  IN IF m.updating = "no" /\ m.queue = << >>
     THEN IF m.readyState = "open"
          THEN LoopTop([w EXCEPT !.mediaSource[i].readyState = "ended"], t)
          ELSE Finish([w EXCEPT !.errors = @ \cup {"Stream Loop Error"}], t)
     ELSE LoopTop(w, t)

\* while ((sourceBuffer.updating || queue.length > 0) && eosSafeties < 100)
EosWait(w, t) ==
  LET m == Closure(w, t)
  IN IF (m.updating # "no" \/ m.queue # << >>) /\ w.stream[t].eosSafeties < MaxEosSafeties
     THEN [w EXCEPT !.stream[t].pc = "eos"]
     ELSE EndOfStream([w EXCEPT !.stream[t].eosSafeties = 0], t)

\* The request as it would be issued if a restart fell back to the first audio
\* track.
IssueFetchFirstTrack(w, t) ==
  IF w.stream[t].aborted THEN Finish(w, t)
  ELSE [w EXCEPT !.stream[t].pc = "fetch",
                 !.stream[t].retryCount = 0,
                 !.stream[t].requested = TRUE,
                 !.stream[t].start = w.stream[t].timeToStart,
                 !.stream[t].audio_track = 0]

\* Lines 302-334: the busy retry, the re-open, the offset and the request.
IssueFetch(w, t) ==
  \* fetch on a signal already aborted rejects at once and sends nothing
  IF w.stream[t].aborted THEN Finish(w, t)
  ELSE [w EXCEPT !.stream[t].pc = "fetch",
                 !.stream[t].retryCount = 0,
                 !.stream[t].requested = TRUE,
                 !.stream[t].start = w.stream[t].timeToStart,
                 !.stream[t].audio_track = w.currentAudioTrackIndex]

\* Lines 302-327 as they would run if a MediaSource that is not open ended the
\* restart with no reload.
AfterFlushNoReload(w, t) ==
  LET i == Inst(w, t)
      m == Closure(w, t)
      s == w.stream[t]
  IN IF m.updating # "no"
     THEN IF s.retryCount < maxRetries
          THEN [w EXCEPT !.stream[t].retryCount = @ + 1, !.stream[t].pc = "retry"]
          ELSE Finish(w, t)
     ELSE IF m.readyState = "open"
          THEN IssueFetch([w EXCEPT !.mediaSource[i].timestampOffset = s.timeToStart], t)
          ELSE Finish(w, t)

AfterFlush(w, t) ==
  LET i == Inst(w, t)
      m == Closure(w, t)
      s == w.stream[t]
  IN IF m.updating # "no"
     THEN IF s.retryCount < maxRetries
          THEN [w EXCEPT !.stream[t].retryCount = @ + 1, !.stream[t].pc = "retry"]
          ELSE Finish(w, t)
     ELSE LET m2 == IF m.readyState = "ended" THEN SourceBufferAbort(m) ELSE m
          IN IF m2.readyState = "open"
             THEN IssueFetch([w EXCEPT !.mediaSource[i] =
                                 [m2 EXCEPT !.timestampOffset = s.timeToStart]], t)
             ELSE LoadVideo(Finish(w, t), s.timeToStart)

\* while (sourceBuffer.updating && s2 < 50)
Wait2(w, t) ==
  IF Closure(w, t).updating # "no" /\ w.stream[t].s2 < MaxS2
  THEN [w EXCEPT !.stream[t].pc = "wait2"]
  ELSE AfterFlush([w EXCEPT !.stream[t].s2 = 0], t)

\* The flush as it would run without sourceBuffer.remove(0, Infinity).
FlushRemovesNothing(w, t) == AfterFlush(w, t)

\* Lines 290-300: Flush for seek/restart.
Flush(w, t) ==
  LET i == Inst(w, t)
      m == Closure(w, t)
  IN IF m.readyState = "open" /\ m.updating = "no" /\ DurationKnown(w)
     THEN Wait2([w EXCEPT !.mediaSource[i].updating = "remove",
                          !.mediaSource[i].op = << -1 >>,
                          !.stream[t].s2 = 0], t)
     ELSE AfterFlush(w, t)

\* while (sourceBuffer.updating && safeties < 20)
Wait1(w, t) ==
  IF Closure(w, t).updating # "no" /\ w.stream[t].safeties < MaxSafeties
  THEN [w EXCEPT !.stream[t].pc = "wait1"]
  ELSE Flush([w EXCEPT !.stream[t].safeties = 0], t)

\* activeStart as it would run without queue.length = 0.
ActiveStartKeepsQueue(w, t) ==
  LET i   == Inst(w, t)
      m   == Closure(w, t)
      old == m.abortController
      st  == IF old # 0 THEN [w.stream EXCEPT ![old] = AbortSignal(@)] ELSE w.stream
      m1  == [m EXCEPT !.abortController = t]
      m2  == IF m1.readyState = "open" THEN SourceBufferAbort(m1) ELSE m1
  IN Wait1([w EXCEPT !.stream = [st EXCEPT ![t].aborted = FALSE,
                                           ![t].pc = "run",
                                           ![t].safeties = 0],
                     !.currentAbortController = t,
                     !.mediaSource[i] = m2], t)

\* Lines 270-288: the previous controller of this closure is aborted, a new
\* one made and recorded globally, the queue emptied, the sink's append aborted.
ActiveStart(w, t) ==
  LET i   == Inst(w, t)
      m   == Closure(w, t)
      old == m.abortController
      st  == IF old # 0 THEN [w.stream EXCEPT ![old] = AbortSignal(@)] ELSE w.stream
      m1  == [m EXCEPT !.abortController = t, !.queue = << >>]
      m2  == IF m1.readyState = "open" THEN SourceBufferAbort(m1) ELSE m1
  IN Wait1([w EXCEPT !.stream = [st EXCEPT ![t].aborted = FALSE,
                                           ![t].pc = "run",
                                           ![t].safeties = 0],
                     !.currentAbortController = t,
                     !.mediaSource[i] = m2], t)

\* startStream (lines 264-401): a new closure with retryCount = 0.
StartStream(w, i, timeToStart, by) ==
  IF w.nStarts >= MaxStarts THEN [w EXCEPT !.overflow = TRUE]
  ELSE LET t == w.nStarts + 1
       IN ActiveStart([w EXCEPT !.nStarts = t,
                                !.stream[t] = [NoStream EXCEPT !.inst = i,
                                                  !.timeToStart = timeToStart,
                                                  !.by = by,
                                                  !.pc = "run"]], t)

\* The response handling as it would run if a failed request were tried again.
OnResponseRetries(w, t, ok, withHeader) ==
  LET i == Inst(w, t)
      m == Closure(w, t)
      s == w.stream[t]
      hdr == IF withHeader THEN ActualStart(s.timeToStart) ELSE -1
  IN IF ~ok THEN ActiveStart([w EXCEPT !.errors = @ \cup {"Stream Loop Error"}], t)
     ELSE IF m.readyState # "open"
          THEN LoopTop([w EXCEPT !.stream[t].header = hdr], t)
     ELSE IF m.updating # "no"
          THEN Finish([w EXCEPT !.errors = @ \cup {"Stream Loop Error"}], t)
     ELSE LoopTop([w EXCEPT !.stream[t].header = hdr,
                            !.mediaSource[i].timestampOffset =
                                IF withHeader THEN hdr ELSE s.timeToStart], t)

\* Lines 336-348: the response has come.
OnResponse(w, t, ok, withHeader) ==
  LET i == Inst(w, t)
      m == Closure(w, t)
      s == w.stream[t]
      hdr == IF withHeader THEN ActualStart(s.timeToStart) ELSE -1
  IN IF ~ok THEN Finish([w EXCEPT !.errors = @ \cup {"Stream Loop Error"}], t)
     ELSE IF m.readyState # "open"
          THEN LoopTop([w EXCEPT !.stream[t].header = hdr], t)
     ELSE IF m.updating # "no"
          \* the timestampOffset setter throws while the SourceBuffer is updating
          THEN Finish([w EXCEPT !.errors = @ \cup {"Stream Loop Error"}], t)
     ELSE LoopTop([w EXCEPT !.stream[t].header = hdr,
                            !.mediaSource[i].timestampOffset =
                                IF withHeader THEN hdr ELSE s.timeToStart], t)

\* Lines 382-393: a chunk has been read.
OnChunk(w, t) ==
  LET i == Inst(w, t)
      s == w.stream[t]
      w1 == [w EXCEPT !.mediaSource[i].queue = Append(@, [s |-> t, k |-> s.nread]),
                      !.stream[t].nread = @ + 1]
  IN IF w1.videoElement.error # "none" THEN Finish(w1, t)
     ELSE LoopTop(IF w1.mediaSource[i].updating = "no" THEN AppendNext(w1, i) ELSE w1, t)

\* Lines 365-380: the response is exhausted.
OnDone(w, t) ==
  IF Closure(w, t).readyState = "open" /\ ~w.stream[t].aborted
  THEN EosWait([w EXCEPT !.stream[t].eosSafeties = 0, !.stream[t].exhausted = TRUE,
                         !.stream[t].nread = 0], t)
  ELSE LoopTop([w EXCEPT !.stream[t].exhausted = TRUE, !.stream[t].nread = 0], t)

\* Lines 358-360: the second of flow-control sleep is over.
OnFlowTick(w, t) ==
  LET i == Inst(w, t)
      m == Closure(w, t)
  IN LoopTop(IF m.queue = << >> /\ m.updating = "no" THEN AppendNext(w, i) ELSE w, t)

(***************************************************************************)
(* The sourceopen handler of loadVideo (lines 76-431).                      *)
(***************************************************************************)
\* Lines 112-116 and 183-189: the MIME type the SourceBuffer is created with.
\* The MIME construction as it would run if the audio codec were always named.
OutputMimeAlwaysAudio(d) ==
  [video |-> IF d.video_codec = "hevc" THEN "hvc1.1.6.L93.B0" ELSE "avc1.4d4028",
   audio |-> "mp4a.40.2"]

VideoCodec(d) == IF d.video_codec = "hevc" THEN "hvc1.1.6.L93.B0" ELSE "avc1.4d4028"
OutputMime(d) == [video |-> VideoCodec(d), audio |-> IF d.nAudio > 0 THEN "mp4a.40.2" ELSE ""]

SetupError(w, i) ==
  [w EXCEPT !.mediaSource[i].init = "failed", !.errors = @ \cup {"Setup error"}]

\* Lines 77-91: sourceopen fires; a replaced MediaSource stops, the current one
\* asks for the metadata.
OnSourceOpen(w, i) ==
  IF i # w.currentMediaSource
  THEN [w EXCEPT !.mediaSource[i].init = "stale"]
  ELSE [w EXCEPT !.mediaSource[i].init = "waitMeta",
                 !.mediaSource[i].readyState = "open"]

\* The sourceopen handler as it would run without the return of line 193.
OnMetadataStartsAnyway(w, i, ok, supported) ==
  LET m == w.mediaSource[i]
      d == w.descriptor
  IN IF ~ok THEN SetupError(w, i)
     ELSE IF m.readyState # "open" THEN SetupError(w, i)
     ELSE StartStream(
            [w EXCEPT !.videoElement.audioOnchange = IF d.nAudio > 1 THEN i ELSE @,
                      !.videoElement.subtitleOnchange = IF d.nSubs > 0 THEN i ELSE @,
                      !.mediaSource[i].init = IF supported THEN "ready" ELSE "failed",
                      !.mediaSource[i].hasBuffer = TRUE,
                      !.mediaSource[i].mime = OutputMime(d),
                      !.videoElement.onseeking = i,
                      !.videoElement.currentTime =
                          IF m.startPosition > 0 THEN m.startPosition ELSE @],
            i, m.startPosition, "sourceopen")

\* Lines 92-426: the metadata response has come.  A MediaSource that was
\* detached meanwhile throws InvalidStateError from its duration setter and
\* from addSourceBuffer, which the catch at line 428 reports.
OnMetadata(w, i, ok, supported) ==
  LET m == w.mediaSource[i]
      d == w.descriptor
  IN IF ~ok THEN SetupError(w, i)
     ELSE IF d.duration > 0 /\ m.readyState # "open" THEN SetupError(w, i)
     ELSE
       LET w1 == [w EXCEPT !.videoElement.audioOnchange = IF d.nAudio > 1 THEN i ELSE @,
                           !.videoElement.subtitleOnchange = IF d.nSubs > 0 THEN i ELSE @]
       IN IF ~supported
          THEN [w1 EXCEPT !.mediaSource[i].init = "failed",
                          !.errors = @ \cup {"Browser does not support codec"}]
          ELSE IF m.readyState # "open" THEN SetupError(w1, i)
          ELSE StartStream(
                 [w1 EXCEPT !.mediaSource[i].init = "ready",
                            !.mediaSource[i].hasBuffer = TRUE,
                      !.mediaSource[i].mime = OutputMime(d),
                            !.videoElement.onseeking = i,
                            !.videoElement.currentTime =
                                IF m.startPosition > 0 THEN m.startPosition ELSE @],
                 i, m.startPosition, "sourceopen")

(***************************************************************************)
(* The handlers the sourceopen handler installs.                            *)
(***************************************************************************)
\* onseeking as it would run if a seek reloaded the player.
OnSeekingReloads(w) == LoadVideo(w, w.videoElement.currentTime)

\* subtitleSelect.onchange as it would run if it restarted the stream the way
\* audioSelect.onchange does.
OnSubtitleChangeRestarts(w, trackIndex) ==
  StartStream([w EXCEPT !.videoElement.track =
                  IF trackIndex # -1 /\ trackIndex < w.descriptor.nSubs THEN trackIndex ELSE -1],
              w.videoElement.subtitleOnchange, w.videoElement.currentTime, "onchange")

\* videoElement.onseeking (lines 404-407).
OnSeeking(w) ==
  StartStream(w, w.videoElement.onseeking, w.videoElement.currentTime, "onseeking")

\* audioSelect.onchange (lines 131-138); startStream is a const of the closure
\* declared further down, so a handler installed by a sourceopen handler that
\* never got there throws on the call.
OnAudioChange(w, newIndex) ==
  LET i == w.videoElement.audioOnchange
  IN IF newIndex # w.currentAudioTrackIndex
     THEN LET w1 == [w EXCEPT !.currentAudioTrackIndex = newIndex]
          IN IF w.mediaSource[i].hasBuffer
             THEN StartStream(w1, i, w.videoElement.currentTime, "onchange")
             ELSE w1
     ELSE w

\* subtitleSelect.onchange (lines 154-180): the <track> children are replaced.
OnSubtitleChange(w, trackIndex) ==
  [w EXCEPT !.videoElement.track =
      IF trackIndex # -1 /\ trackIndex < w.descriptor.nSubs THEN trackIndex ELSE -1]

\* sourceBuffer.addEventListener('updateend', appendNext) (line 260), with
\* what the operation that has ended did to the buffer.
OnUpdateEnd(w, i) ==
  LET m == w.mediaSource[i]
      c == m.op[1]
      b == IF m.updating = "append"
           THEN m.buffered \cup {[s |-> c.s, k |-> c.k,
                                  pos |-> m.timestampOffset + c.k * ChunkSeconds]}
           ELSE RemoveRange(m.buffered, c)
  IN AppendNext([w EXCEPT !.mediaSource[i].updating = "no",
                          !.mediaSource[i].op = << >>,
                          !.mediaSource[i].buffered = b], i)

(***************************************************************************)
(* The library browser (src/frontend/app.js).                               *)
(***************************************************************************)
\* What moviesGrid shows: the library cards, the cards of a folder of a
\* library, or the "Failed to load movies." paragraph.
LibrariesGrid == [kind |-> "libraries", lib |-> 0, path |-> 0]
FolderGrid(e) == [kind |-> "folder", lib |-> e.lib, path |-> e.path]
ErrorGrid     == [kind |-> "error", lib |-> 0, path |-> 0]

\* The page after initLibrary() of a fresh session (lines 56-97): no library
\* saved, renderLibraries().  A path is the depth of a folder below the
\* library root (0 is ''); an entry of navigationStack is the library its root
\* entry was named after, or whose listing its children are, and the path.
LibraryHome ==
  [ currentLibraryId |-> 0,        \* let currentLibraryId (0 = null)
    navigationStack  |-> << >>,    \* let navigationStack
    folderCache      |-> {},       \* let folderCache: the keys libraryId:path
    grid             |-> LibrariesGrid,
    pending          |-> {},       \* the fetches awaited
    timers           |-> {},       \* the auto-lookup timers armed
    posters          |-> {},       \* the nodes a lookup gave a poster
    nRequests        |-> 0 ]

\* The folder at the bottom of the tree is a season folder (lines 324-327).
SeasonPath == MaxDepth

Top(L) == L.navigationStack[Len(L.navigationStack)]

\* renderUI (lines 213-218) with renderGrid (lines 246-340): the grid of the
\* folder on top of the stack; a season folder with no poster among its cards
\* arms setTimeout(() => lookupMovie(node, card, true), 100).
RenderUI(L) ==
  LET e    == Top(L)
      node == [lib |-> e.lib, path |-> e.path + 1]
  IN [L EXCEPT !.grid = FolderGrid(e),
               !.timers = IF node.path = SeasonPath /\ node \notin L.posters
                          THEN @ \cup {[from |-> e, node |-> node]} ELSE @]

\* renderLibraries (lines 104-200); navigationStack is left as it is.
RenderLibraries(L) == [L EXCEPT !.currentLibraryId = 0, !.grid = LibrariesGrid]

\* A fetch is sent: the awaiting call is remembered with what it captured.
Fetch(L, r) ==
  [L EXCEPT !.pending = @ \cup {[r EXCEPT !.n = L.nRequests + 1]},
            !.nRequests = @ + 1]

\* enterLibrary(lib) (lines 202-211) up to the await of fetchMovies('')
\* (lines 29-42); a listing in folderCache is returned with no fetch.
EnterLibrary(L, lib) ==
  LET L1 == [L EXCEPT !.currentLibraryId = lib]
  IN IF [lib |-> lib, path |-> 0] \in L.folderCache
     THEN RenderUI([L1 EXCEPT !.navigationStack = << [lib |-> lib, path |-> 0] >>])
     ELSE Fetch(L1, [op |-> "enterLibrary", n |-> 0, lib |-> lib, id |-> lib,
                     path |-> 0, from |-> [lib |-> 0, path |-> 0]])

\* The onclick of a folder card (lines 306-313) up to the await of
\* fetchMovies(node.path), which returns null when currentLibraryId is null.
OpenFolder(L) ==
  LET node == [lib |-> L.currentLibraryId, path |-> L.grid.path + 1]
  IN IF L.currentLibraryId = 0 THEN L
     ELSE IF node \in L.folderCache
          THEN RenderUI([L EXCEPT !.navigationStack = Append(@, node)])
          ELSE Fetch(L, [op |-> "folder", n |-> 0, lib |-> L.currentLibraryId,
                         id |-> L.currentLibraryId, path |-> node.path,
                         from |-> [lib |-> 0, path |-> 0]])

\* fetchMovies after its await (lines 40-53) and the caller after its own:
\* enterLibrary (lines 207-210) or the folder card's onclick (lines 308-312).
OnListing(L, r, ok) ==
  LET L1 == [L EXCEPT !.pending = @ \ {r}]
  IN IF ~ok THEN [L1 EXCEPT !.grid = ErrorGrid]
     ELSE LET L2 == [L1 EXCEPT !.folderCache = @ \cup {[lib |-> r.id, path |-> r.path]}]
          IN IF r.op = "enterLibrary"
             THEN RenderUI([L2 EXCEPT !.navigationStack = << [lib |-> r.lib, path |-> 0] >>])
             ELSE RenderUI([L2 EXCEPT !.navigationStack =
                                         Append(@, [lib |-> r.id, path |-> r.path])])

\* The back card (lines 249-268): up one folder, or back to the libraries.
OnBack(L) ==
  IF Len(L.navigationStack) > 1
  THEN RenderUI([L EXCEPT !.navigationStack = SubSeq(@, 1, Len(@) - 1)])
  ELSE RenderLibraries(L)

\* lookupMovie (lines 369-396) up to its await, for the card of node started
\* while the grid of from was shown.
LookupMovie(L, from, node) ==
  Fetch(L, [op |-> "lookup", n |-> 0, lib |-> node.lib, id |-> L.currentLibraryId,
            path |-> node.path, from |-> from])

\* lookupMovie after its await (lines 376-395): with data the node gets its
\* poster and renderUI() is called; with none, or a failure, the button only.
OnLookup(L, r, data) ==
  LET L1 == [L EXCEPT !.pending = @ \ {r}]
  IN IF data
     THEN RenderUI([L1 EXCEPT !.posters = @ \cup {[lib |-> r.lib, path |-> r.path]}])
     ELSE L1

(***************************************************************************)
(* The state after DOMContentLoaded: the globals of lines 56-59, then        *)
(* loadVideo(0) (line 435).                                                  *)
(***************************************************************************)
Init ==
  /\ currentAudioTrackIndex = 0
  /\ lastDecodeErrorTime = 0
  /\ currentMediaSource = 1
  /\ currentAbortController = 0
  /\ videoElement = [currentTime |-> 0, error |-> "none", errorTime |-> 0, onseeking |-> 0,
                     audioOnchange |-> 0, subtitleOnchange |-> 0, track |-> -1]
  /\ mediaSource = [i \in Loads |->
                      IF i = 1 THEN [NoMediaSource EXCEPT !.init = "waitOpen"]
                      ELSE NoMediaSource]
  /\ stream = [t \in Streams |-> NoStream]
  /\ descriptor \in Descriptors
  /\ now = StartMs
  /\ nLoads = 1
  /\ nStarts = 0
  /\ nEvents = 0
  /\ errors = {}
  /\ library = LibraryHome

(***************************************************************************)
(* The events.                                                              *)
(***************************************************************************)
\* an event of the browser or the network
Browser == UNCHANGED nEvents

\* something the user or the environment does
Event == nEvents < MaxEvents /\ nEvents' = nEvents + 1

\* The counter of a polling wait after its timer fires.  A poll that finds
\* the condition still true changes nothing but the counter, so the polls of
\* one wait that find it true are taken together, up to the bound.
Polls(counter, bound, waiting) == IF waiting THEN bound ELSE counter + 1

\* mediaSource 'sourceopen'
SourceOpen(i) ==
  /\ Browser
  /\ mediaSource[i].init = "waitOpen"
  /\ Assign(OnSourceOpen(World, i))

\* the response of fetch(metaUrl), and what MediaSource.isTypeSupported answers
MetadataResponse(i) ==
  /\ Browser
  /\ mediaSource[i].init = "waitMeta"
  /\ \E ok \in BOOLEAN, supported \in BOOLEAN :
        Assign(OnMetadata(World, i, ok, supported))

\* the user seeks: currentTime moves and 'seeking' fires
Seek(time) ==
  /\ Event
  /\ videoElement.onseeking # 0
  /\ Assign(OnSeeking([World EXCEPT !.videoElement.currentTime = time]))

\* the user picks an audio track
AudioChange(newIndex) ==
  /\ Event
  /\ videoElement.audioOnchange # 0
  /\ Assign(OnAudioChange(World, newIndex))

\* the user picks a subtitle track, or none
SubtitleChange(trackIndex) ==
  /\ Event
  /\ videoElement.subtitleOnchange # 0
  /\ Assign(OnSubtitleChange(World, trackIndex))

\* sourceBuffer 'updateend': the running append or removal has ended
UpdateEnd(i) ==
  /\ Browser
  /\ mediaSource[i].updating # "no"
  /\ Assign(OnUpdateEnd(World, i))

\* sourceBuffer 'updateend' after abort() has ended an append
AbortedUpdateEnd(i) ==
  /\ Browser
  /\ mediaSource[i].abortEvent
  /\ Assign(AppendNext([World EXCEPT !.mediaSource[i].abortEvent = FALSE], i))

\* setTimeout(r, 20) of the first wait (line 286): the sleeper wakes to an idle
\* sink, or every poll left finds the sink busy
Wait1Timer(t) ==
  /\ Browser
  /\ stream[t].pc = "wait1"
  /\ Assign(Wait1([World EXCEPT !.stream[t].safeties =
                      Polls(@, MaxSafeties, mediaSource[stream[t].inst].updating # "no")], t))

\* setTimeout(r, 20) of the flush wait (line 296)
Wait2Timer(t) ==
  /\ Browser
  /\ stream[t].pc = "wait2"
  /\ Assign(Wait2([World EXCEPT !.stream[t].s2 =
                      Polls(@, MaxS2, mediaSource[stream[t].inst].updating # "no")], t))

\* setTimeout(activeStart, 100) (line 305).  The first MaxSingleRetries busy
\* retries of a startStream are followed one by one; the ones after them that
\* find the sink busy again are taken together, so that this run of activeStart
\* is the last the budget allows.
RetryTimer(t) ==
  /\ Browser
  /\ stream[t].pc = "retry"
  /\ Assign(ActiveStart([World EXCEPT !.stream[t].retryCount =
                            IF @ >= MaxSingleRetries THEN maxRetries ELSE @], t))

\* the response of fetch(streamUrl, { signal })
StreamResponse(t) ==
  /\ Browser
  /\ stream[t].pc = "fetch"
  /\ \E ok \in BOOLEAN, withHeader \in BOOLEAN :
        Assign(OnResponse(World, t, ok, withHeader))

\* reader.read() resolves with a chunk
ReadChunk(t) ==
  /\ Browser
  /\ stream[t].pc = "read"
  /\ ~stream[t].exhausted
  /\ stream[t].nread < MaxChunks
  /\ Assign(OnChunk(World, t))

\* reader.read() resolves with done
ReadDone(t) ==
  /\ Browser
  /\ stream[t].pc = "read"
  /\ Assign(OnDone(World, t))

\* setTimeout(r, 1000) of flow control (line 358)
FlowTimer(t) ==
  /\ Browser
  /\ stream[t].pc = "flow"
  /\ Assign(OnFlowTick(World, t))

\* setTimeout(r, 50) of the drain wait (line 370)
EosTimer(t) ==
  /\ Browser
  /\ stream[t].pc = "eos"
  /\ Assign(EosWait([World EXCEPT !.stream[t].eosSafeties =
                        Polls(@, MaxEosSafeties,
                              \/ mediaSource[stream[t].inst].updating # "no"
                              \/ mediaSource[stream[t].inst].queue # << >>)], t))

(***************************************************************************)
(* The environment.                                                         *)
(***************************************************************************)
Current == mediaSource[currentMediaSource]

\* playback advances through what is buffered
Play ==
  /\ Event
  /\ videoElement.error = "none"
  /\ \E c \in Current.buffered :
        c.pos <= videoElement.currentTime /\ videoElement.currentTime < c.pos + ChunkSeconds
  /\ videoElement.currentTime + PlaySeconds <= descriptor.duration
  /\ videoElement' = [videoElement EXCEPT !.currentTime = @ + PlaySeconds]
  /\ UNCHANGED << currentAudioTrackIndex, lastDecodeErrorTime, currentMediaSource,
                  currentAbortController, mediaSource, stream, descriptor, now,
                  nLoads, nStarts, errors, library >>

\* the video element raises an error (code 3 is MEDIA_ERR_DECODE)
Fault(kind) ==
  /\ Event
  /\ videoElement.error = "none"
  /\ Current.appended # << >>
  /\ videoElement' = [videoElement EXCEPT !.error = kind, !.errorTime = now]
  /\ UNCHANGED << currentAudioTrackIndex, lastDecodeErrorTime, currentMediaSource,
                  currentAbortController, mediaSource, stream, descriptor, now,
                  nLoads, nStarts, errors, library >>

\* the wall clock moves; the script reads it only against lastDecodeErrorTime,
\* so it is followed while that comparison can still change
Tick ==
  /\ UNCHANGED nEvents
  /\ now - lastDecodeErrorTime <= CoolDownMs
  /\ now' = now + TickMs
  /\ UNCHANGED << currentAudioTrackIndex, lastDecodeErrorTime, currentMediaSource,
                  currentAbortController, videoElement, mediaSource, stream,
                  descriptor, nLoads, nStarts, errors, library >>

Next ==
  \/ \E i \in Loads : SourceOpen(i)
  \/ \E i \in Loads : MetadataResponse(i)
  \/ \E time \in SeekTimes : Seek(time)
  \/ \E a \in AudioIndexes : AudioChange(a)
  \/ \E x \in SubtitleIndexes : SubtitleChange(x)
  \/ \E i \in Loads : UpdateEnd(i)
  \/ \E i \in Loads : AbortedUpdateEnd(i)
  \/ \E t \in Streams : Wait1Timer(t)
  \/ \E t \in Streams : Wait2Timer(t)
  \/ \E t \in Streams : RetryTimer(t)
  \/ \E t \in Streams : StreamResponse(t)
  \/ \E t \in Streams : ReadChunk(t)
  \/ \E t \in Streams : ReadDone(t)
  \/ \E t \in Streams : FlowTimer(t)
  \/ \E t \in Streams : EosTimer(t)
  \/ Play
  \/ \E kind \in {"decode", "other"} : Fault(kind)
  \/ Tick

Spec == Init /\ [][Next]_vars

(***************************************************************************)
(* Single active stream.                                                    *)
(***************************************************************************)
\* The streams whose response is being read and is not cancelled: they push
\* the chunks they read.
Uncancelled ==
  {t \in Streams : stream[t].pc \in {"read", "flow"} /\ ~stream[t].aborted}

\* The chunks one sink has taken come stream after stream: no stream comes back
\* after another one.
NotInterleaved ==
  \A i \in Loads : \A a, b \in DOMAIN mediaSource[i].appended :
     a # b => mediaSource[i].appended[a] # mediaSource[i].appended[b]

\* C1: at any time at most one byte-stream fetch is un-cancelled and able to
\* enqueue or append chunks, and the chunks of two streams are never
\* interleaved in the sink.
SingleActiveStream == Cardinality(Uncancelled) <= 1 /\ NotInterleaved

(***************************************************************************)
(* Cancellation.                                                            *)
(***************************************************************************)
Range(q) == {q[n] : n \in DOMAIN q}

\* The chunks of sink i that are waiting in its queue or being appended.
Held(m) == Range(m.queue) \cup (IF m.updating = "append" THEN Range(m.op) ELSE {})

\* The chunks this step pushes on the queue of i.
Pushed(i) == Held(mediaSource[i]') \ Held(mediaSource[i])

\* This step hands a chunk of i to appendBuffer.
AppendCalled(i) ==
  /\ mediaSource[i]'.updating = "append"
  /\ mediaSource[i].updating # "append" \/ mediaSource[i]'.op # mediaSource[i].op

\* C2: once a stream's control handle is cancelled, its fetch loop pushes no
\* further chunk onto the queue and no chunk of it is appended to the sink.
CancelledStreamIsSilent ==
  [][\A i \in Loads :
       /\ \A c \in Pushed(i) : ~stream[c.s].aborted
       /\ AppendCalled(i) => ~stream[mediaSource[i]'.op[1].s].aborted]_vars

\* A stream has been cancelled and the sink of its closure is appending a
\* chunk of the stream started after it.
CancelledThenAppended ==
  \E t, u \in Streams :
     /\ t < u
     /\ stream[t].aborted
     /\ stream[u].inst = stream[t].inst
     /\ ~stream[u].aborted
     /\ mediaSource[stream[u].inst].updating = "append"
     /\ mediaSource[stream[u].inst].op[1].s = u

(***************************************************************************)
(* The timestamp offset of a restart.                                       *)
(***************************************************************************)
\* C3: when the first chunk of a (re)started stream is handed to the sink, the
\* sink's timestampOffset is the actual start A the endpoint reported, or the
\* requested time T when it reported none.
OffsetIsActualStart ==
  [][\A i \in Loads :
       ( /\ AppendCalled(i)
         /\ mediaSource[i]'.op[1].k = 0
         /\ stream[mediaSource[i]'.op[1].s].pc # "done" )
       => LET t == mediaSource[i]'.op[1].s
          IN mediaSource[i]'.timestampOffset =
               IF stream[t].header # -1 THEN stream[t].header ELSE stream[t].timeToStart]_vars

(***************************************************************************)
(* Decode-fault recovery.                                                   *)
(***************************************************************************)
\* No timer, response, read or sink operation of the player is pending: until
\* the user acts, no code of the script runs again.
Quiescent ==
  /\ \A t \in Streams : stream[t].pc \in {"none", "done"}
  /\ \A i \in Loads : /\ mediaSource[i].updating = "no"
                       /\ ~mediaSource[i].abortEvent
                       /\ mediaSource[i].init \notin {"waitOpen", "waitMeta"}

\* This step is the corrective restart of appendNext.
Recovers == lastDecodeErrorTime' # lastDecodeErrorTime

\* C4: each decode fault raised more than the 5 s cool-down after the previous
\* one triggers exactly one corrective restart, at the playback position + 2 s:
\* the fault is not left behind with no callback to see it, and the restart
\* that answers it is one reload, at that time, that clears the fault.
DecodeFaultRestartsOnce ==
  /\ [](( /\ videoElement.error = "decode"
          /\ videoElement.errorTime - lastDecodeErrorTime > CoolDownMs ) => ~Quiescent)
  /\ [][Recovers =>
          /\ videoElement.error = "decode"
          /\ nLoads' = nLoads + 1
          /\ mediaSource'[nLoads'].startPosition = videoElement.currentTime + SkipSeconds
          /\ videoElement'.error = "none"]_vars

\* C5: a decode fault raised within the cool-down window of the previous one
\* triggers no corrective restart, whatever callback sees it later.
GivesUpForGood ==
  [][( /\ videoElement.error = "decode"
       /\ videoElement.errorTime - lastDecodeErrorTime <= CoolDownMs ) => ~Recovers]_vars

(***************************************************************************)
(* Track switches.                                                          *)
(***************************************************************************)
\* C6: switching the subtitle track aborts no fetch, clears no queue, does not
\* touch the sink and issues no stream request: it changes the displayed text
\* track only.
SubtitleSwitchIsFrame ==
  [][(\E x \in SubtitleIndexes : SubtitleChange(x)) =>
        /\ UNCHANGED << stream, mediaSource, currentAbortController, currentMediaSource,
                        currentAudioTrackIndex, lastDecodeErrorTime, descriptor,
                        nLoads, nStarts, errors >>
        /\ videoElement' = [videoElement EXCEPT !.track = videoElement'.track]]_vars

\* A subtitle track has been switched on while a stream was reading and the
\* sink appending, and they still are.
SubtitleSwitchedWhileStreaming ==
  /\ videoElement.track = 0
  /\ \E t \in Streams : /\ stream[t].pc = "read"
                         /\ ~stream[t].aborted
                         /\ mediaSource[stream[t].inst].updating = "append"

\* The restart of stream t is over in this step, un-cancelled, without its
\* request and without handing over to a full reload.
EndsSilently(t) ==
  /\ stream[t].pc \in {"wait1", "wait2", "retry"}
  /\ stream'[t].pc = "done"
  /\ ~stream'[t].aborted
  /\ nLoads' = nLoads

\* C7: every audio-track switch cancels the active byte stream and opens a new
\* one, as a seek does, whose request carries start = the playback position at
\* the switch and audio_track = the index selected.
AudioSwitchRestarts ==
  /\ [][\A a \in AudioIndexes :
          ( /\ AudioChange(a)
            /\ a # currentAudioTrackIndex
            /\ mediaSource[videoElement.audioOnchange].hasBuffer )
          => LET i   == videoElement.audioOnchange
                 old == mediaSource[i].abortController
                 t   == nStarts'
             IN /\ nStarts' = nStarts + 1
                /\ currentAudioTrackIndex' = a
                /\ old # 0 => stream'[old].aborted
                /\ \/ /\ stream'[t].pc # "done"
                      /\ ~stream'[t].aborted
                      /\ stream'[t].timeToStart = videoElement.currentTime
                   \/ /\ nLoads' = nLoads + 1
                      /\ mediaSource'[nLoads'].startPosition = videoElement.currentTime]_vars
  /\ [][\A t \in Streams :
          (stream'[t].requested /\ ~stream[t].requested)
          => /\ stream'[t].start = stream[t].timeToStart
             /\ stream'[t].audio_track = currentAudioTrackIndex']_vars
  /\ [][\A t \in Streams :
          ( /\ currentAudioTrackIndex' # currentAudioTrackIndex
            /\ stream[t].inst = videoElement.audioOnchange
            /\ stream[t].pc \in {"wait1", "wait2", "retry"} )
          => stream'[t].aborted]_vars
  /\ [][\A t \in Streams : stream[t].by = "onchange" => ~EndsSilently(t)]_vars

(***************************************************************************)
(* The metadata lookup.                                                     *)
(***************************************************************************)
\* The loadVideo calls whose sourceopen handler has issued fetch(metaUrl).
MetadataLookups ==
  Cardinality({i \in Loads : mediaSource[i].init \in {"waitMeta", "ready", "failed"}})

MarginOver(t) == stream[t].inst # 0 /\ OverCeiling(World, t)

\* This step issues a reader.read() of stream t.
ReadIssued(t) ==
  /\ stream'[t].pc = "read"
  /\ \/ stream[t].pc # "read"
     \/ stream'[t].nread # stream[t].nread
     \/ stream'[t].exhausted # stream[t].exhausted

\* C9: a read is issued only at a moment when the buffered margin is at most
\* the 30 s ceiling; over the ceiling the loop sleeps instead, and going to
\* sleep or sleeping on does not cancel the connection.
ReadsOnlyUnderCeiling ==
  [][\A t \in Streams :
       /\ ReadIssued(t) => ~MarginOver(t)'
       /\ ( /\ stream'[t].pc = "flow"
            /\ ~stream[t].aborted
            /\ FlowTimer(t) \/ stream[t].pc # "flow" )
          => MarginOver(t)' /\ ~stream'[t].aborted]_vars

\* A stream is asleep in flow control, not cancelled, the margin over the ceiling.
PausedOverCeiling ==
  \E t \in Streams : stream[t].pc = "flow" /\ ~stream[t].aborted /\ MarginOver(t)

RequestIssued(t) == stream'[t].requested /\ ~stream[t].requested

\* C11: when the request of a restart is issued, the fetch that was active
\* has been aborted, the queue is empty, the whole buffered range has been
\* removed and the sink is idle; and no chunk of a stream is appended while
\* content of a stream before it is still in the sink.
FlushBeforeRequest ==
  /\ [][\A t \in Streams :
          RequestIssued(t) =>
            LET m == mediaSource'[stream'[t].inst]
            IN /\ m.queue = << >>
               /\ m.updating = "no"
               /\ m.buffered = {}
               /\ \A u \in Streams \ {t} :
                     stream'[u].inst = stream'[t].inst
                     => stream'[u].aborted \/ stream'[u].pc = "done"]_vars
  /\ [][\A i \in Loads :
          AppendCalled(i) =>
            \A c \in mediaSource'[i].buffered : c.s = mediaSource'[i].op[1].s]_vars

\* The stream of a seek is appending to a sink that had taken chunks of the
\* stream before it.
SeekStreamAppends ==
  \E u \in Streams :
     /\ stream[u].by = "onseeking"
     /\ ~stream[u].aborted
     /\ LET m == mediaSource[stream[u].inst]
        IN /\ m.updating = "append"
           /\ m.op[1].s = u
           /\ Len(m.appended) >= 2

(***************************************************************************)
(* The start time of a request.                                             *)
(***************************************************************************)
\* A position the user can seek to just before the end of the media.
NearEndTime == 99

\* The player with a user who seeks to just before the end, and a decoder
\* that fails.
NextNearEnd ==
  \/ \E i \in Loads : SourceOpen(i)
  \/ \E i \in Loads : MetadataResponse(i)
  \/ Seek(NearEndTime)
  \/ \E i \in Loads : UpdateEnd(i)
  \/ \E i \in Loads : AbortedUpdateEnd(i)
  \/ \E t \in Streams : Wait1Timer(t)
  \/ \E t \in Streams : Wait2Timer(t)
  \/ \E t \in Streams : RetryTimer(t)
  \/ \E t \in Streams : StreamResponse(t)
  \/ \E t \in Streams : ReadChunk(t)
  \/ \E t \in Streams : ReadDone(t)
  \/ \E t \in Streams : FlowTimer(t)
  \/ \E t \in Streams : EosTimer(t)
  \/ Fault("decode")
  \/ Tick

SpecNearEnd == Init /\ [][NextNearEnd]_vars

\* C12: no stream request is issued with a start below 0 or at or after the
\* duration of the media.
StartWithinDuration ==
  [][\A t \in Streams :
       RequestIssued(t) =>
         /\ stream'[t].start >= 0
         /\ stream'[t].start < descriptor.duration]_vars

(***************************************************************************)
(* The end of the stream.                                                   *)
(***************************************************************************)
\* This step calls mediaSource.endOfStream() on MediaSource i (line 375).
Finalized(i) ==
  mediaSource[i].readyState = "open" /\ mediaSource'[i].readyState = "ended"

\* C13: endOfStream is called only when the input of the stream of that sink
\* is exhausted, the queue is empty and the sink is idle; and no chunk is
\* appended to a sink that has been finalized.
FinalizedOnlyWhenDrained ==
  /\ [][\A i \in Loads :
          Finalized(i) =>
            LET c == mediaSource[i].abortController
            IN /\ mediaSource'[i].queue = << >>
               /\ mediaSource'[i].updating = "no"
               /\ c # 0
               /\ ~stream[c].aborted
               /\ \/ stream[c].pc = "eos" /\ stream[c].exhausted
                  \/ stream[c].pc = "read" /\ ReadDone(c)]_vars
  /\ [][\A i \in Loads : AppendCalled(i) => mediaSource[i].readyState = "open"]_vars

\* The response of the stream that MediaSource i is playing has been read to
\* its end, and that stream has not been cancelled.
InputExhausted(i) ==
  LET c == mediaSource[i].abortController
  IN c # 0 /\ ~stream[c].aborted /\ stream[c].exhausted

\* A call of appendNext on MediaSource i is to come without any new input: an
\* 'updateend' is pending.  (The flow-control tick calls appendNext only when
\* the queue is empty, and the drain wait never calls it.)
AppendScheduled(i) == mediaSource[i].updating # "no" \/ mediaSource[i].abortEvent

\* Input exhausted, no fault, chunks in the queue and nobody to append them.
Stranded(i) ==
  /\ i = currentMediaSource
  /\ mediaSource[i].readyState = "open"
  /\ videoElement.error = "none"
  /\ InputExhausted(i)
  /\ mediaSource[i].queue # << >>
  /\ ~AppendScheduled(i)

\* C14: once the input of the current stream is exhausted, the session is
\* never in a state where chunks wait in the queue and no call of appendNext
\* is to come.
ExhaustedQueueDrains == \A i \in Loads : ~Stranded(i)

(***************************************************************************)
(* The order of the chunks.                                                 *)
(***************************************************************************)
\* The queue of i holds the chunks of a stream in the order they were read.
QueueInOrder(i) ==
  LET q == mediaSource[i].queue
  IN \A a, b \in DOMAIN q : a < b /\ q[a].s = q[b].s => q[a].k < q[b].k

\* C15: the chunk handed to appendBuffer is the head of the queue, and it is
\* the chunk of its stream that comes next after the ones already appended:
\* none twice, none skipped, none out of order.
ChunksInOrder ==
  /\ [][\A i \in Loads :
          AppendCalled(i) =>
            LET c == mediaSource'[i].op[1]
                q == mediaSource[i].queue
            IN /\ c.k = stream[c.s].nappended
               /\ IF q # << >> THEN c = Head(q) ELSE c \in Pushed(i)
               /\ c \notin Range(mediaSource'[i].queue)]_vars
  /\ [](\A i \in Loads : QueueInOrder(i))

\* The second chunk of a stream is being appended.
SecondChunkAppended ==
  \E i \in Loads :
     /\ mediaSource[i].updating = "append"
     /\ mediaSource[i].op[1].k = 1
     /\ stream[mediaSource[i].op[1].s].nappended = 2

(***************************************************************************)
(* One operation on the sink at a time.                                     *)
(***************************************************************************)
\* This step starts an append or a range removal on the sink of i.
OperationIssued(i) ==
  /\ mediaSource'[i].updating # "no"
  /\ << mediaSource'[i].updating, mediaSource'[i].op >>
       # << mediaSource[i].updating, mediaSource[i].op >>

\* This step is the response of the stream request of t, with status ok.
ResponseOk(t) ==
  /\ stream[t].pc = "fetch"
  /\ \E withHeader \in BOOLEAN : Assign(OnResponse(World, t, TRUE, withHeader))

\* C16: an append or a removal starts only on an idle sink (the operation
\* before it has ended in the same step, or was an append that the restart
\* aborted), and the timestampOffset written when the response of a stream
\* comes is written to an idle sink.
SinkSerialized ==
  /\ [][\A i \in Loads :
          OperationIssued(i) /\ mediaSource[i].updating # "no" =>
            \/ UpdateEnd(i)
            \/ mediaSource[i].updating = "append" /\ mediaSource'[i].abortEvent]_vars
  /\ [][\A t \in Streams :
          ResponseOk(t) /\ mediaSource[stream[t].inst].readyState = "open" =>
            mediaSource[stream[t].inst].updating = "no"]_vars

(***************************************************************************)
(* The sink is full.                                                        *)
(***************************************************************************)
\* This step issues the trim of cleanupBuffer on the sink of i (the flush
\* removes up to Infinity, which op holds as -1).
TrimIssued(i) ==
  /\ OperationIssued(i)
  /\ mediaSource'[i].updating = "remove"
  /\ mediaSource'[i].op[1] # -1

\* This step is the updateend of a trim on the sink of i.
TrimEnded(i) ==
  /\ mediaSource[i].updating = "remove"
  /\ mediaSource[i].op[1] # -1
  /\ UpdateEnd(i)

Blocked(i) ==
  /\ i = currentMediaSource
  /\ mediaSource[i].readyState = "open"
  /\ videoElement.error = "none"
  /\ mediaSource[i].queue # << >>
  /\ QuotaExceeded(mediaSource[i])
  /\ ~AppendScheduled(i)

\* C18: a chunk rejected for capacity that no trim can make room for is
\* dropped: it does not stay at the head of the queue in front of the chunks
\* behind it.
RejectedChunkDropped == \A i \in Loads : ~Blocked(i)

(***************************************************************************)
(* Fatal conditions.                                                        *)
(***************************************************************************)
\* This step reports a condition the script treats as fatal: the setup
\* error, the unsupported codec, the stream loop error, the fatal playback
\* error, the decode error inside the cool-down.
FatalReported == errors' # errors

\* Nothing of a session is left: no activeStart is asleep on a timer or
\* awaiting a response or a read, and no chunk is in a queue.
NothingLeft ==
  /\ \A t \in Streams : stream[t].pc \in {"none", "done"}
  /\ \A i \in Loads : mediaSource[i].queue = << >>

\* C19: a step that reports a fatal condition leaves no timer pending, no
\* chunk in the queue and no fetch open.
FatalIsTerminal == [][FatalReported => NothingLeft']_vars

\* This step is a run of activeStart that a restart begun earlier had left
\* asleep on one of its timers.
RestartContinues ==
  \E t \in Streams : Wait1Timer(t) \/ Wait2Timer(t) \/ RetryTimer(t)

FailedStartIsFatal ==
  \A i \in Loads :
     mediaSource[i].init = "failed" =>
       /\ ~mediaSource[i].hasBuffer
       /\ videoElement.onseeking # i
       /\ \A t \in Streams : stream[t].inst # i

\* The MIME type was not supported, and the user has since switched the audio
\* track with the handler that sourceopen handler had installed.
UnsupportedThenSwitched ==
  \E i \in Loads :
     /\ mediaSource[i].init = "failed"
     /\ "Browser does not support codec" \in errors
     /\ videoElement.audioOnchange = i
     /\ currentAudioTrackIndex # 0

(***************************************************************************)
(* A stream request that fails.                                             *)
(***************************************************************************)
\* This step is the response of the stream request of t with a status that is
\* not ok, or the rejection of the fetch for a reason other than an abort.
FetchFailed(t) ==
  /\ stream[t].pc = "fetch"
  /\ \E withHeader \in BOOLEAN : Assign(OnResponse(World, t, FALSE, withHeader))

\* No activeStart is asleep or awaiting anything and no sourceopen handler is
\* under way: nothing the user began earlier is still to run.
NothingUnderWay ==
  /\ \A t \in Streams : stream[t].pc \in {"none", "done"}
  /\ \A i \in Loads : mediaSource[i].init \notin {"waitOpen", "waitMeta"}

\* C22: a stream request that fails is reported, and that is the end of its
\* activeStart: the step starts nothing, an activeStart that has returned
\* never runs again, and once nothing the user began earlier is under way no
\* stream is started and no request issued except by a user event (or by the
\* recovery from a decode fault).
FailedRequestNotRetried ==
  /\ [][\A t \in Streams :
          FetchFailed(t) =>
            /\ "Stream Loop Error" \in errors'
            /\ stream'[t].pc = "done"
            /\ nStarts' = nStarts
            /\ nLoads' = nLoads
            /\ \A u \in Streams \ {t} : stream'[u] = stream[u]]_vars
  /\ [][\A t \in Streams : stream[t].pc = "done" => stream'[t].pc = "done"]_vars
  /\ [][( /\ NothingUnderWay
          /\ \/ nStarts' # nStarts
             \/ nLoads' # nLoads
             \/ \E t \in Streams : RequestIssued(t) ) =>
          nEvents' # nEvents \/ Recovers]_vars

\* The first stream request has failed and nothing is under way.
FirstRequestFailed ==
  /\ nLoads = 1
  /\ nStarts = 1
  /\ stream[1].pc = "done"
  /\ ~stream[1].aborted
  /\ "Stream Loop Error" \in errors
  /\ mediaSource[1].readyState = "open"
  /\ mediaSource[1].appended = << >>
  /\ NothingUnderWay

(***************************************************************************)
(* The MIME type of the SourceBuffer.                                       *)
(***************************************************************************)
\* The player started on any of the media of FormatDescriptors, up to the
\* call of addSourceBuffer and the first startStream.
InitFormats ==
  /\ currentAudioTrackIndex = 0
  /\ lastDecodeErrorTime = 0
  /\ currentMediaSource = 1
  /\ currentAbortController = 0
  /\ videoElement = [currentTime |-> 0, error |-> "none", errorTime |-> 0, onseeking |-> 0,
                     audioOnchange |-> 0, subtitleOnchange |-> 0, track |-> -1]
  /\ mediaSource = [i \in Loads |->
                      IF i = 1 THEN [NoMediaSource EXCEPT !.init = "waitOpen"]
                      ELSE NoMediaSource]
  /\ stream = [t \in Streams |-> NoStream]
  /\ descriptor \in FormatDescriptors
  /\ now = StartMs
  /\ nLoads = 1
  /\ nStarts = 0
  /\ nEvents = 0
  /\ errors = {}
  /\ library = LibraryHome

NextFormats ==
  \/ \E i \in Loads : SourceOpen(i)
  \/ \E i \in Loads : MetadataResponse(i)

SpecFormats == InitFormats /\ [][NextFormats]_vars

\* C23: the SourceBuffer is created for the HEVC codec string exactly when
\* the descriptor's video codec is hevc and for the AVC one otherwise, with
\* the AAC codec exactly when the descriptor has at least one audio track.
MimeFollowsDescriptor ==
  \A i \in Loads :
     mediaSource[i].hasBuffer =>
       /\ mediaSource[i].mime.video \in {"hvc1.1.6.L93.B0", "avc1.4d4028"}
       /\ mediaSource[i].mime.video = "hvc1.1.6.L93.B0" <=> descriptor.video_codec = "hevc"
       /\ mediaSource[i].mime.audio \in {"mp4a.40.2", ""}
       /\ mediaSource[i].mime.audio = "mp4a.40.2" <=> descriptor.nAudio >= 1

\* A SourceBuffer has been created for media that is not HEVC and has no
\* audio track.
AvcVideoOnly ==
  \E i \in Loads :
     /\ mediaSource[i].hasBuffer
     /\ descriptor.video_codec = "h264"
     /\ descriptor.nAudio = 0

(***************************************************************************)
(* Callbacks of a superseded restart.                                       *)
(***************************************************************************)
\* A newer activeStart has run in the closure of t since t made its
\* controller: t is no longer the stream its sink belongs to.
Superseded(t) ==
  /\ stream[t].inst # 0
  /\ mediaSource[stream[t].inst].abortController # t

\* C24: the busy-retry timer of a restart that a newer restart has superseded
\* does nothing when it fires: it does not abort the newer stream, empty the
\* queue, take over the sink or issue a request at its own time.
StaleRetryDropped ==
  [][\A t \in Streams :
       ( Superseded(t) /\ RetryTimer(t) ) =>
         LET i == stream[t].inst
             c == mediaSource[i].abortController
         IN /\ stream'[c].aborted = stream[c].aborted
            /\ mediaSource'[i].abortController = c
            /\ mediaSource'[i].queue = mediaSource[i].queue
            /\ ~RequestIssued(t)]_vars

\* This step is a run of stream t that calls mediaSource.endOfStream(): its
\* read has returned done, or its drain wait is over.
FinalizedBy(t) ==
  /\ stream[t].inst # 0
  /\ Finalized(stream[t].inst)
  /\ EosTimer(t) \/ ReadDone(t)

\* C25: endOfStream is called only by the stream that is current and not
\* cancelled at the moment of the call.
OnlyCurrentFinalizes ==
  [][\A t \in Streams : FinalizedBy(t) => ~stream[t].aborted /\ ~Superseded(t)]_vars

(***************************************************************************)
(* A superseded restart and the timestamp offset.                           *)
(***************************************************************************)
\* This step is a run of stream t that resumes from one of the polling waits
\* of activeStart (lines 286 and 296).
ResumesFromWait(t) == Wait1Timer(t) \/ Wait2Timer(t)

\* C26: a restart that has been superseded while it slept in a polling wait
\* never writes the sink's timestampOffset when it resumes, so that the offset
\* stays the one of the current stream.
StaleWaitKeepsOffset ==
  [][\A t \in Streams :
       ( Superseded(t) /\ ResumesFromWait(t) )
       => mediaSource'[stream[t].inst].timestampOffset =
            mediaSource[stream[t].inst].timestampOffset]_vars

(***************************************************************************)
(* The queue across a supersession.                                         *)
(***************************************************************************)
\* The stream that is current in the closure of loadVideo call i: the one whose
\* controller the closure's abortController holds (0: none yet).
CurrentStream(i) == mediaSource[i].abortController

\* Every chunk in the queue of i was read by the current stream of i; that
\* stream is cancelled only when a full reload has replaced the MediaSource of
\* i, whose closure appends nothing any more.
QueueOfCurrentStream(i) ==
  \A c \in Range(mediaSource[i].queue) :
     /\ c.s = CurrentStream(i)
     /\ stream[c.s].aborted =>
          i # currentMediaSource /\ mediaSource[i].readyState = "closed"

\* A chunk this step hands to appendBuffer was read by the stream that is
\* current and not cancelled, before the step and after it.
AppendsOfCurrentStream(i) ==
  AppendCalled(i) =>
    LET c == mediaSource'[i].op[1]
    IN /\ c.s = CurrentStream(i)
       /\ c.s = mediaSource'[i].abortController
       /\ ~stream[c.s].aborted
       /\ ~stream'[c.s].aborted
       /\ i = currentMediaSource'

\* This step supersedes the current stream of i: a restart in the closure of i
\* or a full reload.
Supersedes(i) ==
  /\ CurrentStream(i) # 0
  /\ \/ mediaSource'[i].abortController # CurrentStream(i)
     \/ ~stream[CurrentStream(i)].aborted /\ stream'[CurrentStream(i)].aborted

DrainTimedOut(t) == stream[t].exhausted /\ stream[t].pc \in {"read", "flow"}

\* C28: the drain wait at the end of the stream polls at most 100 times and is
\* not entered again once it has hit that bound.
DrainWaitNotReentered ==
  [][\A t \in Streams : DrainTimedOut(t) => stream'[t].pc # "eos"]_vars

(***************************************************************************)
(* A reload during an initialization.                                       *)
(***************************************************************************)
\* A medium whose metadata names no duration (line 96 then leaves
\* mediaSource.duration alone).
UntimedDescriptors ==
  { [duration |-> 0, video_codec |-> "hevc", nAudio |-> 2, nSubs |-> 1] }

\* The player started on a medium of UntimedDescriptors.
InitUntimed ==
  /\ currentAudioTrackIndex = 0
  /\ lastDecodeErrorTime = 0
  /\ currentMediaSource = 1
  /\ currentAbortController = 0
  /\ videoElement = [currentTime |-> 0, error |-> "none", errorTime |-> 0, onseeking |-> 0,
                     audioOnchange |-> 0, subtitleOnchange |-> 0, track |-> -1]
  /\ mediaSource = [i \in Loads |->
                      IF i = 1 THEN [NoMediaSource EXCEPT !.init = "waitOpen"]
                      ELSE NoMediaSource]
  /\ stream = [t \in Streams |-> NoStream]
  /\ descriptor \in UntimedDescriptors
  /\ now = StartMs
  /\ nLoads = 1
  /\ nStarts = 0
  /\ nEvents = 0
  /\ errors = {}
  /\ library = LibraryHome

\* The events of a player whose medium has no known duration: remove() throws
\* on every call, so no range removal runs, no restart finds the sink busy
\* and none of the polling timers of activeStart is ever armed; the position
\* moves by seeks only.
NextUntimed ==
  \/ \E i \in Loads : SourceOpen(i)
  \/ \E i \in Loads : MetadataResponse(i)
  \/ \E time \in SeekTimes : Seek(time)
  \/ \E a \in AudioIndexes : AudioChange(a)
  \/ \E x \in SubtitleIndexes : SubtitleChange(x)
  \/ \E i \in Loads : UpdateEnd(i)
  \/ \E i \in Loads : AbortedUpdateEnd(i)
  \/ \E t \in Streams : StreamResponse(t)
  \/ \E t \in Streams : ReadChunk(t)
  \/ \E t \in Streams : ReadDone(t)
  \/ \E t \in Streams : FlowTimer(t)
  \/ \E t \in Streams : EosTimer(t)
  \/ \E kind \in {"decode", "other"} : Fault(kind)
  \/ Tick

SpecUntimed == InitUntimed /\ [][NextUntimed]_vars

\* The initialization of loadVideo call i is awaiting sourceopen or the
\* metadata response, and a later loadVideo has replaced its MediaSource.
StaleInit(i) ==
  /\ i # currentMediaSource
  /\ mediaSource[i].init \in {"waitOpen", "waitMeta"}

\* This step is the sourceopen handler of i resuming.
InitStep(i) == SourceOpen(i) \/ MetadataResponse(i)

\* C29: an initialization that a full reload has replaced while it awaited
\* sourceopen or the metadata takes no further effect: it creates no
\* SourceBuffer, installs no seek or track-switch handler and starts no stream.
StaleInitTakesNoEffect ==
  [][\A i \in Loads :
       ( StaleInit(i) /\ InitStep(i) )
       => /\ ~mediaSource'[i].hasBuffer
          /\ videoElement'.onseeking = videoElement.onseeking
          /\ videoElement'.audioOnchange = videoElement.audioOnchange
          /\ videoElement'.subtitleOnchange = videoElement.subtitleOnchange
          /\ nStarts' = nStarts
          /\ nLoads' = nLoads]_vars

(***************************************************************************)
(* The queue ahead of a sink that takes nothing.                            *)
(***************************************************************************)
\* The chunks whose media takes the buffered margin over the ceiling, and one
\* more for the read under way when the pause begins: what a stream paused at
\* the ceiling has fetched at most.
PendingBound == CeilingSeconds \div ChunkSeconds + 2

SeekPending(t) ==
  /\ stream[t].by = "onseeking"
  /\ stream[t].pc \in {"wait1", "wait2", "retry"}
  /\ ~stream[t].aborted
  /\ ~Superseded(t)
  /\ mediaSource[stream[t].inst].readyState = "open"

\* This step ends activeStart of t with no request issued, no error logged
\* and no reload begun.
GivesUpSilently(t) ==
  /\ stream'[t].pc = "done"
  /\ errors' = errors
  /\ nLoads' = nLoads

\* C31: the restart of a seek on an open sink never ends without a request for
\* the sought time unless an error is reported: the player is not left with
\* the previous stream cancelled, the queue cleared and nothing under way.
SeekNeverStranded ==
  [][\A t \in Streams : SeekPending(t) => ~GivesUpSilently(t)]_vars

(***************************************************************************)
(* A seek after the end of the stream.                                      *)
(***************************************************************************)
\* This step is a seek to time while the MediaSource of the seek handler is
\* 'ended'.
SeekOnEnded(time) ==
  /\ Seek(time)
  /\ mediaSource[videoElement.onseeking].readyState = "ended"

AudioTrackIsKept ==
  /\ [][currentAudioTrackIndex' # currentAudioTrackIndex =>
          \E a \in AudioIndexes : AudioChange(a) /\ currentAudioTrackIndex' = a]_vars
  /\ [][\A t \in Streams :
          RequestIssued(t) => stream'[t].audio_track = currentAudioTrackIndex']_vars

\* The user picked the second track, the player was reloaded, and the stream
\* of the new MediaSource was requested with that track.
ReloadedWithSecondTrack ==
  /\ currentAudioTrackIndex = 1
  /\ nLoads >= 2
  /\ \E t \in Streams :
        /\ stream[t].inst = nLoads
        /\ stream[t].by = "sourceopen"
        /\ stream[t].requested
        /\ stream[t].audio_track = 1

(***************************************************************************)
(* The cool-down across reloads.                                            *)
(***************************************************************************)
\* This step is a run of appendNext that reloads the player: the corrective
\* restart of a decode fault.
DecodeReload ==
  /\ nLoads' # nLoads
  /\ \/ \E i \in Loads : UpdateEnd(i) \/ AbortedUpdateEnd(i)
     \/ \E t \in Streams : FlowTimer(t) \/ ReadChunk(t)

\* C34: a corrective restart happens only more than 5 s after the one before
\* it, whose time lastDecodeErrorTime holds: the restart records the time, and
\* nothing else, no reload either, moves lastDecodeErrorTime or sets it back.
CoolDownSpansReloads ==
  /\ [][DecodeReload =>
          /\ now - lastDecodeErrorTime > CoolDownMs
          /\ lastDecodeErrorTime' = now]_vars
  /\ [][lastDecodeErrorTime' # lastDecodeErrorTime => DecodeReload]_vars
  /\ [][lastDecodeErrorTime' >= lastDecodeErrorTime]_vars

\* Two corrective restarts have happened, the second in the player the first
\* one reloaded, one step of the clock later.
RecoveredTwice ==
  /\ nLoads = 3
  /\ mediaSource[2].startPosition = SkipSeconds
  /\ mediaSource[3].startPosition = SkipSeconds + SkipSeconds
  /\ lastDecodeErrorTime = StartMs + TickMs

(***************************************************************************)
(* The library browser: its events.                                         *)
(***************************************************************************)
\* The player's variables, which the library page does not have.
playerVars == << currentAudioTrackIndex, lastDecodeErrorTime, currentMediaSource,
                 currentAbortController, videoElement, mediaSource, stream,
                 descriptor, now, nLoads, nStarts, nEvents, errors >>

\* the user clicks a library card of the libraries view
ClickLibrary(lib) ==
  /\ library.grid.kind = "libraries"
  /\ [lib |-> lib, path |-> 0] \in library.folderCache \/ library.nRequests < MaxRequests
  /\ library' = EnterLibrary(library, lib)
  /\ UNCHANGED playerVars

\* the user clicks the folder card of a folder grid
ClickFolder ==
  /\ library.grid.kind = "folder"
  /\ library.grid.path < MaxDepth
  /\ library.nRequests < MaxRequests
  /\ library' = OpenFolder(library)
  /\ UNCHANGED playerVars

\* the user clicks the back card of a folder grid
ClickBack ==
  /\ library.grid.kind = "folder"
  /\ library' = OnBack(library)
  /\ UNCHANGED playerVars

\* the user clicks the lookup button of a card of a folder grid
ClickLookup ==
  /\ library.grid.kind = "folder"
  /\ library.nRequests < MaxRequests
  /\ LET from == [lib |-> library.grid.lib, path |-> library.grid.path]
     IN library' = LookupMovie(library, from, [lib |-> from.lib, path |-> from.path + 1])
  /\ UNCHANGED playerVars

\* setTimeout(() => lookupMovie(node, card, true), 100) of renderGrid fires
LookupTimer(tm) ==
  /\ tm \in library.timers
  /\ library.nRequests < MaxRequests
  /\ library' = LookupMovie([library EXCEPT !.timers = @ \ {tm}], tm.from, tm.node)
  /\ UNCHANGED playerVars

\* the response of /api/movies
ListingResponse(r) ==
  /\ r \in library.pending
  /\ r.op \in {"enterLibrary", "folder"}
  /\ \E ok \in BOOLEAN : library' = OnListing(library, r, ok)
  /\ UNCHANGED playerVars

\* the response of /api/lookup
LookupResponse(r) ==
  /\ r \in library.pending
  /\ r.op = "lookup"
  /\ \E data \in BOOLEAN : library' = OnLookup(library, r, data)
  /\ UNCHANGED playerVars

\* Every request the library browser can have sent.
Requests ==
  [op : {"enterLibrary", "folder", "lookup"}, n : 1..MaxRequests, lib : Libraries,
   id : 0..MaxLibraries, path : 0..(MaxDepth + 1),
   from : [lib : 0..MaxLibraries, path : 0..MaxDepth]]

NextLibrary ==
  \/ \E lib \in Libraries : ClickLibrary(lib)
  \/ ClickFolder
  \/ ClickBack
  \/ ClickLookup
  \/ \E tm \in library.timers : LookupTimer(tm)
  \/ \E r \in library.pending : ListingResponse(r)
  \/ \E r \in library.pending : LookupResponse(r)

SpecLibrary == Init /\ [][NextLibrary]_vars

(***************************************************************************)
(* The navigation stack and the current library.                            *)
(***************************************************************************)
\* No root listing is awaited.
NoEnterPending == \A r \in library.pending : r.op # "enterLibrary"

\* C35: once the root listings asked for have returned, the folder grid shown
\* belongs to the current library: the root of navigationStack is the library
\* currentLibraryId names.
StackBelongsToLibrary ==
  ( /\ NoEnterPending
    /\ library.grid.kind = "folder"
    /\ library.currentLibraryId # 0 )
  => library.navigationStack[1].lib = library.currentLibraryId

(***************************************************************************)
(* A lookup that outlives its grid.                                         *)
(***************************************************************************)
\* The user is no longer where the lookup r was started: the libraries view
\* is shown, or another folder is on top of the stack.
LeftPlace(r) ==
  \/ library.grid.kind = "libraries"
  \/ library.navigationStack # << >> /\ Top(library) # r.from

\* C36: a lookup that completes after the user has left the place where it
\* was started does not render the folder grid of that place.
StaleLookupRendersNothing ==
  [][\A r \in Requests :
       ( r \in library.pending /\ LeftPlace(r) /\ LookupResponse(r) )
       => library'.grid # FolderGrid(r.from)]_vars

=============================================================================
